---- MODULE Spec2Model ----
(***************************************************************************)
(* A model of scripts/rss_to_posts.py: the feed ingestion pipeline, its    *)
(* manifest store and its text helpers.                                    *)
(*                                                                         *)
(* Text is a sequence of one-character strings, <<>> being both the empty  *)
(* string and an absent attribute (the code tests both with the same       *)
(* truthiness checks).  A datetime is a positive integer instant; two      *)
(* consecutive instants share a calendar day.                              *)
(***************************************************************************)
EXTENDS Integers, Sequences, FiniteSets, TLC

(***************************************************************************)
(* Bounds of the model.                                                    *)
(***************************************************************************)
MaxRuns == 2
MaxEntries == 2
NumFeeds == 2
MaxInstant == 4
MaxText == 7
MaxCut == 3
MaxTitle == 4

(***************************************************************************)
(* Program constants.                                                      *)
(***************************************************************************)
SUMMARY_MAX_LEN == 280
HASH_BASE_LEN == 512
DEFAULT_ITEMS_PER_FEED == 20

(***************************************************************************)
(* Characters and the regular expressions' character classes.              *)
(***************************************************************************)
Space == {" ", "\n", "\t"}
SlugChars == {"a", "b", "c", "d", "e", "f", "g", "h", "i", "j", "k", "l", "m",
              "n", "o", "p", "q", "r", "s", "t", "u", "v", "w", "x", "y", "z",
              "0", "1", "2", "3", "4", "5", "6", "7", "8", "9", "-"}
UpperChars == <<"A", "B", "C", "D", "E", "F", "G", "H", "I", "J", "K", "L", "M",
                "N", "O", "P", "Q", "R", "S", "T", "U", "V", "W", "X", "Y", "Z">>
LowerChars == <<"a", "b", "c", "d", "e", "f", "g", "h", "i", "j", "k", "l", "m",
                "n", "o", "p", "q", "r", "s", "t", "u", "v", "w", "x", "y", "z">>
\* the one character U+2026 (horizontal ellipsis)
Ellipsis == "..."
\* the one character U+00E9 (e with acute accent), which lower() leaves as it is
EAcute == "e-acute"

Min(a, b) == IF a <= b THEN a ELSE b
Max(a, b) == IF a >= b THEN a ELSE b

\* str.lower() on one character
LowerChar(c) ==
    IF \E i \in 1..Len(UpperChars) : UpperChars[i] = c
    THEN LowerChars[CHOOSE i \in 1..Len(UpperChars) : UpperChars[i] = c]
    ELSE c

Lower(s) == [i \in 1..Len(s) |-> LowerChar(s[i])]

\* s[:n], with Python's meaning of a negative n
Slice(s, n) ==
    IF n >= 0 THEN SubSeq(s, 1, Min(n, Len(s)))
    ELSE SubSeq(s, 1, Max(0, Len(s) + n))

\* the indices of s kept by a substitution, as a sequence in increasing order
Ordered(idx) ==
    [k \in 1..Cardinality(idx) |->
        CHOOSE i \in idx : Cardinality({j \in idx : j <= i}) = k]

\* re.sub(r"[cls]+", r, s): every maximal run of characters of cls becomes r
SubRuns(s, cls, r) ==
    LET at == Ordered({i \in 1..Len(s) : ~(s[i] \in cls /\ i > 1 /\ s[i-1] \in cls)})
    IN [k \in 1..Len(at) |-> IF s[at[k]] \in cls THEN r ELSE s[at[k]]]

\* re.sub(r"[^keep]+", r, s): every maximal run of characters outside keep becomes r
SubRunsNotIn(s, keep, r) ==
    LET at == Ordered({i \in 1..Len(s) : ~(s[i] \notin keep /\ i > 1 /\ s[i-1] \notin keep)})
    IN [k \in 1..Len(at) |-> IF s[at[k]] \notin keep THEN r ELSE s[at[k]]]

\* str.rstrip(chars) and str.strip(chars)
RStrip(s, cls) ==
    LET keep == {i \in 1..Len(s) : s[i] \notin cls}
    IN IF keep = {} THEN <<>>
       ELSE SubSeq(s, 1, CHOOSE i \in keep : \A j \in keep : j <= i)

Strip(s, cls) ==
    LET keep == {i \in 1..Len(s) : s[i] \notin cls}
    IN IF keep = {} THEN <<>>
       ELSE SubSeq(s, CHOOSE i \in keep : \A j \in keep : i <= j,
                      CHOOSE i \in keep : \A j \in keep : j <= i)

(***************************************************************************)
(* slugify                                                                 *)
(***************************************************************************)
\* without the final strip("-")
slugify_NoStrip(text) ==
    LET t1 == Strip(Lower(text), Space)
        t2 == SubRuns(t1, Space, "-")
        t3 == SubRunsNotIn(t2, SlugChars, "-")
        t4 == SubRuns(t3, {"-"}, "-")
    IN IF t4 = <<>> THEN <<"p", "o", "s", "t">> ELSE t4

slugify(text) ==
    LET t1 == Strip(Lower(text), Space)
        t2 == SubRuns(t1, Space, "-")
        t3 == SubRunsNotIn(t2, SlugChars, "-")
        t4 == Strip(SubRuns(t3, {"-"}, "-"), {"-"})
    IN IF t4 = <<>> THEN <<"p", "o", "s", "t">> ELSE t4

(***************************************************************************)
(* summarize_text                                                          *)
(***************************************************************************)
\* the end of the match of <[^>]+> that starts at i, or 0 when none starts there
TagEnd(s, i) ==
    IF s[i] = "<" /\ i + 1 <= Len(s) /\ s[i+1] # ">"
          /\ \E j \in (i+2)..Len(s) : s[j] = ">"
    THEN CHOOSE j \in (i+2)..Len(s) : s[j] = ">" /\ \A k \in (i+2)..(j-1) : s[k] # ">"
    ELSE 0

\* re.sub(r"<[^>]+>", " ", s) from index i on: leftmost matches, not overlapping
RECURSIVE StripTagsFrom(_, _)
StripTagsFrom(s, i) ==
    IF i > Len(s) THEN <<>>
    ELSE IF TagEnd(s, i) # 0 THEN <<" ">> \o StripTagsFrom(s, TagEnd(s, i) + 1)
    ELSE <<s[i]>> \o StripTagsFrom(s, i + 1)

StripTags(s) == StripTagsFrom(s, 1)

\* the text before truncation: tags replaced, whitespace collapsed, stripped
PlainText(html) == Strip(SubRuns(StripTags(html), Space, " "), Space)

\* txt[:max_len] in place of txt[:max_len - 1]
Truncate_OffByOne(txt, max_len) == RStrip(Slice(txt, max_len), Space) \o <<Ellipsis>>

Truncate(txt, max_len) == RStrip(Slice(txt, max_len - 1), Space) \o <<Ellipsis>>

summarize_text(html, max_len) ==
    LET txt == PlainText(html)
    IN IF Len(txt) > max_len THEN Truncate(txt, max_len) ELSE txt

\* whether s holds a match of <[^>]+>
HasTag(s) == \E i \in 1..Len(s) : TagEnd(s, i) # 0

(***************************************************************************)
(* Feed entries, as the feed collaborator hands them over.  published and  *)
(* updated are 0 when absent and an instant otherwise; content is the      *)
(* sequence of the content parts' values.                                  *)
(***************************************************************************)
Entry(id, link, title, summary, content, published, updated) ==
    [id |-> id, link |-> link, title |-> title, summary |-> summary,
     content |-> content, published |-> published, updated |-> updated]

Instants == 1..MaxInstant

\* two entries with the same title and instant and different ids, and one
\* with neither id nor link nor dates, whose title is blank
EntryPool ==
    { Entry(<<"a">>, <<"l">>, <<"H", "i">>, <<"<", "p", ">", "x">>, <<>>, 2, 0),
      Entry(<<"b">>, <<>>, <<"H", "i">>, <<"y">>, << <<"<", "b", ">">>, <<"z">> >>, 2, 3),
      Entry(<<>>, <<>>, <<" ">>, <<"x", " ", "y">>, <<>>, 0, 0) }

RECURSIVE SeqsUpTo(_, _)
SeqsUpTo(S, n) ==
    IF n = 0 THEN {<<>>}
    ELSE LET shorter == SeqsUpTo(S, n - 1)
         IN shorter \cup {Append(t, x) : t \in {u \in shorter : Len(u) = n - 1}, x \in S}

\* what feedparser.parse returns for one feed: the entries it recovered
FeedContents == SeqsUpTo(EntryPool, MaxEntries)
Snapshots == SeqsUpTo(FeedContents, NumFeeds)

\* int(os.getenv("ITEMS_PER_FEED", "20"))
ItemCaps == {-1, 1, DEFAULT_ITEMS_PER_FEED}

(***************************************************************************)
(* post_identity                                                           *)
(***************************************************************************)
\* hashlib.sha1(base).hexdigest(): forty hexadecimal digits, here the tagged
\* base (the digest is taken to be free of collisions within the bounds)
Sha1Hex(base) == <<"sha1:">> \o base

HashBase(entry) == Slice(entry.title \o <<"|">> \o entry.summary, HASH_BASE_LEN)

\* the link preferred to the native id
post_identity_LinkFirst(entry) ==
    IF entry.link # <<>> THEN entry.link
    ELSE IF entry.id # <<>> THEN entry.id
    ELSE Sha1Hex(HashBase(entry))

post_identity(entry) ==
    IF entry.id # <<>> THEN entry.id
    ELSE IF entry.link # <<>> THEN entry.link
    ELSE Sha1Hex(HashBase(entry))

(***************************************************************************)
(* pick_datetime, the title and the content of an entry                    *)
(***************************************************************************)
pick_datetime(entry, now) ==
    IF entry.published # 0 THEN entry.published
    ELSE IF entry.updated # 0 THEN entry.updated
    ELSE now

\* date_dt.strftime("%Y-%m-%d"): the calendar day of an instant
DateStr(d) == (d + 1) \div 2

\* date_dt.isoformat(): a string whose order is the order of the instants;
\* 0 stands for the empty string, the sort key of a record without date_iso
IsoFormat(d) == d

Untitled == <<"U", "n", "t", "i", "t", "l", "e", "d">>

EntryTitle(entry) ==
    LET t == Strip(IF entry.title = <<>> THEN Untitled ELSE entry.title, Space)
    IN IF t = <<>> THEN Untitled ELSE t

RECURSIVE JoinParts(_)
JoinParts(parts) ==
    IF parts = <<>> THEN <<>>
    ELSE IF Len(parts) = 1 THEN Head(parts)
    ELSE Head(parts) \o <<" ">> \o JoinParts(Tail(parts))

ContentHtml(entry) ==
    LET joined == JoinParts(SelectSeq(entry.content, LAMBDA v : v # <<>>))
    IN IF joined # <<>> THEN joined ELSE entry.summary

(***************************************************************************)
(* render_html and write_post_file                                         *)
(***************************************************************************)
render_html(title, date_iso, content_html, source_link) ==
    [title |-> title, date_iso |-> date_iso, content |-> content_html,
     source |-> source_link]

\* an empty file: what open("w") leaves before anything is written
EmptyDoc == render_html(<<>>, 0, <<>>, <<>>)

\* f"{date_str}-{slug}.html"
Filename(date_dt, title) == [date_str |-> DateStr(date_dt), slug |-> slugify(title)]

\* exclusive creation: an existing file is left as it is
WriteFile_Exclusive(fs, name, html) ==
    [n \in DOMAIN fs \cup {name} |-> IF n \in DOMAIN fs THEN fs[n] ELSE html]

WriteFile(fs, name, html) ==
    [n \in DOMAIN fs \cup {name} |-> IF n = name THEN html ELSE fs[n]]

(***************************************************************************)
(* The manifest: PostRecords, the manifest file and load/save              *)
(***************************************************************************)
\* kind is the JSON type of the list element: a record the script wrote is
\* an object
PostRecord(pid, title, filename, date_iso, source, summary) ==
    [kind |-> "object", id |-> pid, title |-> title, slug |-> filename,
     path |-> [dir |-> "posts", name |-> filename],
     date_iso |-> date_iso, source |-> source, summary |-> summary]

NewRecord(entry, pid, date_dt) ==
    PostRecord(pid, EntryTitle(entry), Filename(date_dt, EntryTitle(entry)),
               IsoFormat(date_dt), entry.link,
               summarize_text(ContentHtml(entry), SUMMARY_MAX_LEN))

EmptyManifest == [posts |-> <<>>, extra |-> FALSE]

\* The manifest file.  complete is FALSE for a file that open("w") truncated
\* and json.dump has not finished writing.
ManifestFile(ex, rd, js, dict, has, lst, posts, extra, complete) ==
    [exists |-> ex, readable |-> rd, valid_json |-> js, is_dict |-> dict,
     has_posts |-> has, posts_is_list |-> lst, posts |-> posts, extra |-> extra,
     complete |-> complete]

AbsentFile == ManifestFile(FALSE, FALSE, FALSE, FALSE, FALSE, FALSE, <<>>, FALSE, TRUE)
TruncatedFile == ManifestFile(TRUE, TRUE, FALSE, FALSE, FALSE, FALSE, <<>>, FALSE, FALSE)

\* json.dump(manifest, f, ...) once it has finished
json_dump(manifest) ==
    ManifestFile(TRUE, TRUE, TRUE, TRUE, TRUE, TRUE, manifest.posts, manifest.extra, TRUE)

\* json.load(f) of a file that holds an object with a "posts" list
json_load(file) == [posts |-> file.posts, extra |-> file.extra]

\* the isinstance(data["posts"], list) test left out
load_manifest_NoListCheck(file) ==
    IF ~file.exists THEN EmptyManifest
    ELSE IF ~file.readable \/ ~file.valid_json THEN EmptyManifest
    ELSE IF ~file.is_dict \/ ~file.has_posts THEN EmptyManifest
    ELSE json_load(file)

load_manifest(file) ==
    IF ~file.exists THEN EmptyManifest
    ELSE IF ~file.readable \/ ~file.valid_json THEN EmptyManifest
    ELSE IF ~file.is_dict \/ ~file.has_posts \/ ~file.posts_is_list THEN EmptyManifest
    ELSE json_load(file)

\* an element of the post list that is not an object, such as a number
NotADict == [PostRecord(<<>>, <<>>, [date_str |-> 0, slug |-> <<>>], 0, <<>>, <<>>) EXCEPT !.kind = "number"]

\* a date_iso that is a number and not a string
NumberDate == -1

\* p.get raises AttributeError on an element that has no get
KnownIdsRaises(manifest) ==
    \E i \in 1..Len(manifest.posts) : manifest.posts[i].kind # "object"

\* set(p.get("id") for p in manifest.get("posts", []) if p.get("id"))
KnownIds(manifest) ==
    {manifest.posts[i].id : i \in {j \in 1..Len(manifest.posts) : manifest.posts[j].id # <<>>}}

\* the place of x in a list sorted by date_iso descending: after every
\* element whose key is not smaller (the sort is stable)
\* an unstable sort: a record goes before the records of equal date_iso
RECURSIVE InsertDesc_TiesFirst(_, _)
InsertDesc_TiesFirst(sorted, x) ==
    IF sorted = <<>> THEN <<x>>
    ELSE IF Head(sorted).date_iso > x.date_iso
         THEN <<Head(sorted)>> \o InsertDesc_TiesFirst(Tail(sorted), x)
         ELSE <<x>> \o sorted

RECURSIVE InsertDesc(_, _)
InsertDesc(sorted, x) ==
    IF sorted = <<>> THEN <<x>>
    ELSE IF Head(sorted).date_iso >= x.date_iso
         THEN <<Head(sorted)>> \o InsertDesc(Tail(sorted), x)
         ELSE <<x>> \o sorted

RECURSIVE SortFrom(_, _)
SortFrom(sorted, rest) ==
    IF rest = <<>> THEN sorted
    ELSE SortFrom(InsertDesc(sorted, Head(rest)), Tail(rest))

\* the sort raises: x.get on an element that has no get (AttributeError), or a
\* comparison of a string key with a number key (TypeError)
SortRaises(posts) ==
    \/ \E i \in 1..Len(posts) : posts[i].kind # "object"
    \/ \E i, j \in 1..Len(posts) :
          posts[i].date_iso = NumberDate /\ posts[j].date_iso # NumberDate

\* the sort left out
SortPosts_Unsorted(posts) == posts

\* posts.sort(key=lambda x: x.get("date_iso", ""), reverse=True)
SortPosts(posts) == SortFrom(<<>>, posts)

(***************************************************************************)
(* The manifest files and documents a run may find on disk.                *)
(***************************************************************************)
OldRecord(pid, title, d) == PostRecord(pid, title, Filename(d, title), IsoFormat(d), <<>>, <<"o">>)

StoredManifests ==
    { <<>>,
      \* what an earlier run wrote for the first entry of the pool
      << OldRecord(<<"a">>, <<"H", "i">>, 2) >>,
      \* edited by hand: ascending dates
      << OldRecord(<<"c">>, <<"O", "l", "d">>, 1), OldRecord(<<"b">>, <<"Y", "o">>, 3) >>,
      \* edited by hand: the same id twice
      << OldRecord(<<"c">>, <<"O", "l", "d">>, 3), OldRecord(<<"c">>, <<"O", "l", "d">>, 1) >>,
      \* a record without id and without date_iso
      << PostRecord(<<>>, <<"N">>, Filename(1, <<"N">>), 0, <<>>, <<>>),
         OldRecord(<<"c">>, <<"O", "l", "d">>, 1) >>,
      \* edited by hand: a number among the records
      << OldRecord(<<"c">>, <<"O", "l", "d">>, 1), NotADict >>,
      \* edited by hand: a record whose date_iso is a number
      << [OldRecord(<<"c">>, <<"O", "l", "d">>, 1) EXCEPT !.date_iso = NumberDate] >> }

NotJsonFile == ManifestFile(TRUE, TRUE, FALSE, FALSE, FALSE, FALSE, <<>>, FALSE, TRUE)

ManifestFiles ==
    { AbsentFile, NotJsonFile }
    \cup { ManifestFile(TRUE, TRUE, TRUE, TRUE, TRUE, TRUE, p, Len(p) = 1, TRUE) :
             p \in StoredManifests }

\* the documents of the records of a manifest file
DocumentsOf(file) ==
    LET m == load_manifest(file)
        names == {m.posts[i].slug : i \in {j \in 1..Len(m.posts) : m.posts[j].kind = "object"}}
        rec(n) == m.posts[CHOOSE i \in 1..Len(m.posts) : m.posts[i].slug = n]
    IN [n \in names |-> render_html(rec(n).title, rec(n).date_iso, rec(n).summary, rec(n).source)]

(***************************************************************************)
(* The state of the pipeline                                               *)
(***************************************************************************)
VARIABLES
    run,            \* the number of the run of main()
    pc,             \* where main() is: start, feeds, entries, dump, done, failed
    snapshot,       \* what each configured feed returns, in listed order
    items_per_feed, \* ITEMS_PER_FEED
    disk,           \* the manifest file
    files,          \* the documents under posts/: filename -> content
    manifest,       \* main's manifest
    known_ids,      \* main's known_ids
    added_count,    \* main's added_count
    fi,             \* the index of the feed being processed
    entries,        \* the entries of that feed still to be examined
    bozo,           \* parsed.bozo of the feed parsed last
    exit_code,      \* -1 while running, then the exit status
    failed_at,      \* the step that raised
    loaded,         \* what load_manifest returned in this run
    disk0,          \* the manifest file when the run started
    writes,         \* the document writes of this run: name, id, whether the file existed
    prev_saved,     \* the previous run ended normally and saved the manifest
    saves,          \* the calls of save_manifest in this run
    text_in, cut_in, text_out, entry_in, id_out   \* the text helpers' inputs and results

config == <<snapshot, items_per_feed>>
store == <<disk, files>>
locals == <<manifest, known_ids, added_count, fi, entries, bozo>>
history == <<loaded, disk0, writes, prev_saved, saves>>
pure == <<text_in, cut_in, text_out, entry_in, id_out>>
vars == <<run, pc, config, store, locals, exit_code, failed_at, history, pure>>

NoEntry == Entry(<<>>, <<>>, <<>>, <<>>, <<>>, 0, 0)
PipelineIdle ==
    /\ run = 1 /\ snapshot = <<>> /\ items_per_feed = DEFAULT_ITEMS_PER_FEED
    /\ disk = AbsentFile /\ files = DocumentsOf(AbsentFile)
    /\ manifest = EmptyManifest /\ known_ids = {} /\ added_count = 0
    /\ fi = 1 /\ entries = <<>> /\ bozo = FALSE /\ exit_code = -1 /\ failed_at = ""
    /\ loaded = EmptyManifest /\ disk0 = AbsentFile /\ writes = <<>>
    /\ prev_saved = FALSE /\ saves = 0

PureIdle == text_in = <<>> /\ cut_in = 0 /\ text_out = <<>> /\ entry_in = NoEntry /\ id_out = <<>>

Init ==
    /\ run = 1
    /\ pc = "start"
    /\ snapshot \in Snapshots
    /\ items_per_feed \in ItemCaps
    /\ disk \in ManifestFiles
    /\ files = DocumentsOf(disk)
    /\ manifest = EmptyManifest
    /\ known_ids = {}
    /\ added_count = 0
    /\ fi = 1
    /\ entries = <<>>
    /\ bozo = FALSE
    /\ exit_code = -1
    /\ failed_at = ""
    /\ loaded = EmptyManifest
    /\ disk0 = disk
    /\ writes = <<>>
    /\ prev_saved = FALSE
    /\ saves = 0
    /\ PureIdle

\* the exception is swallowed and the run goes on
Raise_Swallowed(step) ==
    /\ pc' = pc
    /\ exit_code' = exit_code
    /\ failed_at' = step

Raise(step) ==
    /\ pc' = "failed"
    /\ exit_code' = 1
    /\ failed_at' = step

\* ensure_dirs() raises
EnsureDirsFail ==
    /\ pc = "start"
    /\ Raise("mkdir")
    /\ UNCHANGED <<run, config, store, locals, history, pure>>

\* main() up to the feed loop: ensure_dirs, load_manifest, known_ids, feeds
StartRun ==
    /\ pc = "start"
    /\ ~KnownIdsRaises(load_manifest(disk))
    /\ manifest' = load_manifest(disk)
    /\ known_ids' = KnownIds(manifest')
    /\ loaded' = manifest'
    /\ added_count' = 0
    /\ fi' = 1
    /\ IF snapshot = <<>>
       THEN pc' = "done" /\ exit_code' = 0
       ELSE pc' = "feeds" /\ exit_code' = exit_code
    /\ UNCHANGED <<run, config, store, entries, bozo, failed_at, disk0, writes,
                   prev_saved, saves, pure>>

\* main(): the generator of known_ids raises on the loaded post list
KnownIdsFail ==
    /\ pc = "start"
    /\ KnownIdsRaises(load_manifest(disk))
    /\ manifest' = load_manifest(disk)
    /\ loaded' = manifest'
    /\ Raise("known_ids")
    /\ UNCHANGED <<run, config, store, known_ids, added_count, fi, entries, bozo,
                   disk0, writes, prev_saved, saves, pure>>

\* a feed that feedparser flagged is left out
FetchFeed_SkipFlagged ==
    /\ pc = "feeds"
    /\ fi <= Len(snapshot)
    /\ \E flagged \in BOOLEAN :
         /\ bozo' = flagged
         /\ IF snapshot[fi] = <<>> \/ flagged
            THEN fi' = fi + 1 /\ UNCHANGED <<pc, entries>>
            ELSE pc' = "entries" /\ entries' = Slice(snapshot[fi], items_per_feed) /\ fi' = fi
    /\ UNCHANGED <<run, config, store, manifest, known_ids, added_count,
                   exit_code, failed_at, history, pure>>

\* feedparser.parse of the next feed, which may flag a parsing issue; a feed
\* without entries is skipped
FetchFeed ==
    /\ pc = "feeds"
    /\ fi <= Len(snapshot)
    /\ \E flagged \in BOOLEAN : bozo' = flagged
    /\ IF snapshot[fi] = <<>>
       THEN fi' = fi + 1 /\ UNCHANGED <<pc, entries>>
       ELSE pc' = "entries" /\ entries' = Slice(snapshot[fi], items_per_feed) /\ fi' = fi
    /\ UNCHANGED <<run, config, store, manifest, known_ids, added_count,
                   exit_code, failed_at, history, pure>>

\* the entry loop of a feed ends
EndFeed ==
    /\ pc = "entries"
    /\ entries = <<>>
    /\ pc' = "feeds"
    /\ fi' = fi + 1
    /\ UNCHANGED <<run, config, store, manifest, known_ids, added_count, entries, bozo,
                   exit_code, failed_at, history, pure>>

\* a skipped entry is counted as added
SkipEntry_Counted ==
    /\ pc = "entries"
    /\ entries # <<>>
    /\ post_identity(Head(entries)) \in known_ids
    /\ entries' = Tail(entries)
    /\ added_count' = added_count + 1
    /\ UNCHANGED <<run, pc, config, store, manifest, known_ids, fi, bozo,
                   exit_code, failed_at, history, pure>>

\* an entry whose identity is known is skipped
SkipEntry ==
    /\ pc = "entries"
    /\ entries # <<>>
    /\ post_identity(Head(entries)) \in known_ids
    /\ entries' = Tail(entries)
    /\ UNCHANGED <<run, pc, config, store, manifest, known_ids, added_count, fi, bozo,
                   exit_code, failed_at, history, pure>>

\* the identity of an added entry is not remembered
KnownAfterAdd_Forget(known, pid) == known

\* known_ids.add(pid)
KnownAfterAdd(known, pid) == known \cup {pid}

\* the record replaces the post list instead of being appended to it
AppendRecord_Replace(m, rec) == [m EXCEPT !.posts = <<rec>>]

\* manifest["posts"].append({...})
AppendRecord(m, rec) == [m EXCEPT !.posts = Append(@, rec)]

\* datetime.now() is read only when the entry carries no usable date
Clock(entry) == IF entry.published # 0 \/ entry.updated # 0 THEN {1} ELSE {1, MaxInstant}

\* a new entry: the document is written, the record appended
AddEntry ==
    /\ pc = "entries"
    /\ entries # <<>>
    /\ LET entry == Head(entries)
           pid == post_identity(entry)
       IN /\ pid \notin known_ids
          /\ \E now \in Clock(entry) :
               LET date_dt == pick_datetime(entry, now)
                   title == EntryTitle(entry)
                   filename == Filename(date_dt, title)
                   html == render_html(title, IsoFormat(date_dt), ContentHtml(entry), entry.link)
               IN /\ files' = WriteFile(files, filename, html)
                  /\ writes' = Append(writes, [name |-> filename, id |-> pid, feed |-> fi,
                                                existed |-> filename \in DOMAIN files])
                  /\ manifest' = AppendRecord(manifest, NewRecord(entry, pid, date_dt))
          /\ known_ids' = KnownAfterAdd(known_ids, pid)
    /\ added_count' = added_count + 1
    /\ entries' = Tail(entries)
    /\ UNCHANGED <<run, pc, config, disk, fi, bozo, exit_code, failed_at,
                   loaded, disk0, prev_saved, saves, pure>>

\* write_text raises: when opening the file, or after open("w") emptied it
WriteFail ==
    /\ pc = "entries"
    /\ entries # <<>>
    /\ LET entry == Head(entries)
       IN /\ post_identity(entry) \notin known_ids
          /\ \E now \in Clock(entry), opened \in BOOLEAN :
               files' = IF opened
                        THEN WriteFile(files, Filename(pick_datetime(entry, now), EntryTitle(entry)), EmptyDoc)
                        ELSE files
    /\ Raise("write")
    /\ UNCHANGED <<run, config, disk, locals, history, pure>>

\* save_manifest called at the end of every feed instead of after the loop
SaveOpen_EveryFeed ==
    /\ pc = "feeds"
    /\ fi > 1
    /\ ~SortRaises(manifest.posts)
    /\ manifest' = [manifest EXCEPT !.posts = SortPosts(@)]
    /\ disk' = TruncatedFile
    /\ pc' = "dump"
    /\ saves' = saves + 1
    /\ UNCHANGED <<run, config, files, known_ids, added_count, fi, entries, bozo,
                   exit_code, failed_at, loaded, disk0, writes, prev_saved, pure>>

\* save_manifest: the sort, then open("w") empties the manifest file
SaveOpen ==
    /\ pc = "feeds"
    /\ fi > Len(snapshot)
    /\ ~SortRaises(manifest.posts)
    /\ manifest' = [manifest EXCEPT !.posts = SortPosts(@)]
    /\ disk' = TruncatedFile
    /\ pc' = "dump"
    /\ saves' = saves + 1
    /\ UNCHANGED <<run, config, files, known_ids, added_count, fi, entries, bozo,
                   exit_code, failed_at, loaded, disk0, writes, prev_saved, pure>>

\* save_manifest: the sort raises; the process ends with the list in memory
\* in whatever order the sort left it
SaveSortFail ==
    /\ pc = "feeds"
    /\ fi > Len(snapshot)
    /\ SortRaises(manifest.posts)
    /\ saves' = saves + 1
    /\ Raise("sort")
    /\ UNCHANGED <<run, config, store, locals, loaded, disk0, writes, prev_saved, pure>>

\* save_manifest: the sort, then open("w") raises
SaveOpenFail ==
    /\ pc = "feeds"
    /\ fi > Len(snapshot)
    /\ ~SortRaises(manifest.posts)
    /\ manifest' = [manifest EXCEPT !.posts = SortPosts(@)]
    /\ saves' = saves + 1
    /\ Raise("open")
    /\ UNCHANGED <<run, config, store, known_ids, added_count, fi, entries, bozo,
                   loaded, disk0, writes, prev_saved, pure>>

\* save_manifest: json.dump finishes, main prints the totals and returns
SaveDump ==
    /\ pc = "dump"
    /\ disk' = json_dump(manifest)
    /\ pc' = "done"
    /\ exit_code' = 0
    /\ UNCHANGED <<run, config, files, locals, failed_at, history, pure>>

\* save_manifest: json.dump raises, or the process is stopped, part way
SaveDumpFail ==
    /\ pc = "dump"
    /\ Raise("dump")
    /\ UNCHANGED <<run, config, store, locals, history, pure>>

\* the next invocation of the script
NextRun ==
    /\ pc \in {"done", "failed"}
    /\ run < MaxRuns
    /\ run' = run + 1
    /\ pc' = "start"
    /\ manifest' = EmptyManifest
    /\ known_ids' = {}
    /\ added_count' = 0
    /\ fi' = 1
    /\ entries' = <<>>
    /\ bozo' = FALSE
    /\ exit_code' = -1
    /\ failed_at' = ""
    /\ loaded' = EmptyManifest
    /\ disk0' = disk
    /\ writes' = <<>>
    /\ prev_saved' = (pc = "done" /\ snapshot # <<>>)
    /\ saves' = 0
    /\ UNCHANGED <<config, store, pure>>

Next ==
    \/ EnsureDirsFail
    \/ StartRun
    \/ KnownIdsFail
    \/ FetchFeed
    \/ EndFeed
    \/ SkipEntry
    \/ AddEntry
    \/ WriteFail
    \/ SaveOpen
    \/ SaveSortFail
    \/ SaveOpenFail
    \/ SaveDump
    \/ SaveDumpFail
    \/ NextRun

Spec == Init /\ [][Next]_vars

(***************************************************************************)
(* The manifest store on its own: every shape of manifest file, one feed.  *)
(***************************************************************************)
FileShapes ==
    { AbsentFile }
    \cup { ManifestFile(TRUE, FALSE, js, js, js, js, <<>>, x, TRUE) : js, x \in BOOLEAN }
    \cup { ManifestFile(TRUE, TRUE, FALSE, FALSE, FALSE, FALSE, <<>>, FALSE, c) : c \in BOOLEAN }
    \cup { ManifestFile(TRUE, TRUE, TRUE, FALSE, FALSE, FALSE, p, FALSE, TRUE) : p \in StoredManifests }
    \cup { ManifestFile(TRUE, TRUE, TRUE, TRUE, FALSE, FALSE, <<>>, x, TRUE) : x \in BOOLEAN }
    \cup { ManifestFile(TRUE, TRUE, TRUE, TRUE, TRUE, FALSE, <<>>, x, TRUE) : x \in BOOLEAN }
    \cup { ManifestFile(TRUE, TRUE, TRUE, TRUE, TRUE, TRUE, p, x, TRUE) :
             p \in StoredManifests, x \in BOOLEAN }

InitLoad ==
    /\ run = 1
    /\ pc = "start"
    /\ snapshot \in {<<f>> : f \in {g \in FeedContents : Len(g) = MaxEntries}}
    /\ items_per_feed = DEFAULT_ITEMS_PER_FEED
    /\ disk \in FileShapes
    /\ files = DocumentsOf(disk)
    /\ manifest = EmptyManifest /\ known_ids = {} /\ added_count = 0
    /\ fi = 1 /\ entries = <<>> /\ bozo = FALSE /\ exit_code = -1 /\ failed_at = ""
    /\ loaded = EmptyManifest /\ disk0 = disk /\ writes = <<>>
    /\ prev_saved = FALSE /\ saves = 0
    /\ PureIdle

SpecLoad == InitLoad /\ [][Next]_vars

(***************************************************************************)
(* summarize_text on its own                                               *)
(***************************************************************************)
MarkupChars == {"<", ">", " ", "a"}
Texts == SeqsUpTo(MarkupChars, MaxText)

InitSummary ==
    /\ PipelineIdle
    /\ pc = "text"
    /\ text_in \in Texts
    /\ cut_in \in 1..MaxCut
    /\ text_out = <<>> /\ entry_in = NoEntry /\ id_out = <<>>

Summarize ==
    /\ pc = "text"
    /\ text_out' = summarize_text(text_in, cut_in)
    /\ pc' = "summarized"
    /\ UNCHANGED <<run, config, store, locals, exit_code, failed_at, history,
                   text_in, cut_in, entry_in, id_out>>

SpecSummary == InitSummary /\ [][Summarize]_vars

(***************************************************************************)
(* post_identity on its own                                                *)
(***************************************************************************)
IdEntries ==
    { Entry(id, link, t, sm, <<>>, pb, 0) :
        id \in {<<>>, <<"a">>, <<"l">>}, link \in {<<>>, <<"l">>, <<"m">>},
        t \in {<<>>, <<"t">>, <<"t", "|">>}, sm \in {<<>>, <<"s">>, <<"|", "s">>},
        pb \in {0, 1} }

InitIdentity ==
    /\ PipelineIdle
    /\ pc = "entry"
    /\ entry_in \in IdEntries
    /\ text_in = <<>> /\ cut_in = 0 /\ text_out = <<>> /\ id_out = <<>>

Identify ==
    /\ pc = "entry"
    /\ id_out' = post_identity(entry_in)
    /\ pc' = "identified"
    /\ UNCHANGED <<run, config, store, locals, exit_code, failed_at, history,
                   text_in, cut_in, text_out, entry_in>>

SpecIdentity == InitIdentity /\ [][Identify]_vars

(***************************************************************************)
(* slugify on its own                                                      *)
(***************************************************************************)
TitleChars == {"a", "A", "1", " ", "-", "!", EAcute}
Titles == SeqsUpTo(TitleChars, MaxTitle)

InitSlug ==
    /\ PipelineIdle
    /\ pc = "title"
    /\ text_in \in Titles
    /\ cut_in = 0 /\ text_out = <<>> /\ entry_in = NoEntry /\ id_out = <<>>

Slugify ==
    /\ pc = "title"
    /\ text_out' = slugify(text_in)
    /\ pc' = "slugged"
    /\ UNCHANGED <<run, config, store, locals, exit_code, failed_at, history,
                   text_in, cut_in, entry_in, id_out>>

SpecSlug == InitSlug /\ [][Slugify]_vars

(***************************************************************************)
(* Properties                                                              *)
(***************************************************************************)
UniqueIds(posts) ==
    \A i, j \in 1..Len(posts) : i # j => posts[i].id # posts[j].id

SortedDesc(posts) ==
    \A i \in 1..(Len(posts) - 1) : posts[i].date_iso >= posts[i+1].date_iso

\* main() returned after save_manifest
Saved == pc = "done" /\ snapshot # <<>>

\* the entries of feed f that the entry loop examines
Examined(f) == Slice(snapshot[f], items_per_feed)

\* C1 as stated: whatever manifest was loaded, no two records of the final
\* manifest share an id.
C1_UniqueWhateverLoaded ==
    Saved => UniqueIds(manifest.posts) /\ UniqueIds(disk.posts)

\* C1 amended: when no two records of the loaded manifest share an id, no two
\* records of the in-memory manifest ever share an id, and neither do two
\* records of the manifest the run persists.
C1_UniqueFromUnique ==
    UniqueIds(loaded.posts) =>
        /\ UniqueIds(manifest.posts)
        /\ (Saved => UniqueIds(disk.posts))

\* a run that met the same entry twice within its cap, added it once and saved
C1_Witness ==
    /\ Saved
    /\ added_count >= 1
    /\ UniqueIds(loaded.posts)
    /\ \E f1, f2 \in 1..Len(snapshot) :
         \E i1 \in 1..Len(Examined(f1)), i2 \in 1..Len(Examined(f2)) :
            /\ <<f1, i1>> # <<f2, i2>>
            /\ Examined(f1)[i1] = Examined(f2)[i2]
            /\ post_identity(Examined(f1)[i1]) \notin KnownIds(loaded)

\* C2: a run against the snapshot of the previous run, which saved, adds no
\* record, writes no document and persists the post list it loaded, element
\* for element.
C2_Idempotent ==
    (pc = "done" /\ prev_saved) =>
        /\ added_count = 0
        /\ writes = <<>>
        /\ disk.complete /\ disk.valid_json
        /\ disk.posts = disk0.posts

\* a second run over a manifest that holds two records of equal date_iso
C2_Witness ==
    /\ pc = "done" /\ prev_saved
    /\ \E i, j \in 1..Len(disk.posts) :
         i # j /\ disk.posts[i].date_iso = disk.posts[j].date_iso

\* C3: the post list save_manifest persisted is sorted by date_iso descending.
C3_PersistedSorted ==
    (Saved \/ (pc = "start" /\ prev_saved)) => SortedDesc(disk.posts)

\* a save of records that were loaded in ascending order, with one appended
C3_Witness ==
    /\ Saved
    /\ ~SortedDesc(loaded.posts)
    /\ added_count >= 1
    /\ Len(disk.posts) >= 3

\* C4: every document write of a run creates a file that did not exist.
C4_WritesCreate ==
    \A k \in 1..Len(writes) : ~writes[k].existed

\* C5: the manifest file is never half written.
C5_NeverHalfWritten ==
    disk.complete

\* C6: a storage failure ends the run with exit status 1; after a failed
\* mkdir or document write the manifest file is the one the run found, the
\* failing step appends nothing, and nothing follows but the next invocation.
StorageSteps == {"mkdir", "write", "open", "dump"}

C6_StorageFailureFatal ==
    /\ [](failed_at # "" =>
            /\ pc = "failed"
            /\ exit_code = 1
            /\ (failed_at \in {"mkdir", "write"} => disk = disk0))
    /\ [][(failed_at = "" /\ failed_at' \in StorageSteps) =>
            /\ manifest'.posts = SortPosts(manifest.posts) \/ manifest' = manifest
            /\ (failed_at' = "write" => manifest' = manifest)
            /\ known_ids' = known_ids
            /\ added_count' = added_count
            /\ entries' = entries]_vars
    /\ [][pc = "failed" => (pc' = "start" /\ run' = run + 1 /\ disk' = disk /\ files' = files)]_vars

\* a document write failed after a document was added and with entries left
C6_Witness ==
    /\ failed_at = "write"
    /\ added_count >= 1
    /\ Len(entries) >= 1
    /\ Len(manifest.posts) = Len(loaded.posts) + 1

\* C7: load_manifest returns the empty manifest for a file that is absent,
\* unreadable, not JSON, not an object, without "posts" or whose "posts" is
\* not a list, and the persisted content for any other file.
WellFormed(file) ==
    /\ file.exists /\ file.readable /\ file.valid_json
    /\ file.is_dict /\ file.has_posts /\ file.posts_is_list

HasLoaded == pc # "start" /\ failed_at # "mkdir"

C7_LoadRecovers ==
    HasLoaded =>
        IF WellFormed(disk0)
        THEN loaded.posts = disk0.posts /\ loaded.extra = disk0.extra
        ELSE loaded.posts = <<>> /\ loaded.extra = FALSE

\* an object whose "posts" is not a list, with other keys, was loaded as empty
C7_Witness ==
    /\ HasLoaded
    /\ disk0.has_posts /\ ~disk0.posts_is_list /\ disk0.extra
    /\ loaded = EmptyManifest
    /\ pc = "entries"

SameTitleAndDate(e1, e2) ==
    /\ e1.title = e2.title
    /\ e1.published = e2.published /\ e1.published # 0
    /\ post_identity(e1) # post_identity(e2)

HasRecord(pid, name) ==
    \E k \in 1..Len(manifest.posts) :
        /\ manifest.posts[k].id = pid
        /\ manifest.posts[k].slug = name
        /\ manifest.posts[k].path = [dir |-> "posts", name |-> name]

DocumentOf(e) ==
    render_html(EntryTitle(e), IsoFormat(e.published), ContentHtml(e), e.link)

Collided(e1, e2) ==
    LET name == Filename(e1.published, EntryTitle(e1))
        p1 == post_identity(e1)
        p2 == post_identity(e2)
    IN /\ HasRecord(p1, name) /\ HasRecord(p2, name)
       /\ \E k, l \in 1..Len(writes) :
            /\ k < l
            /\ {writes[k].id, writes[l].id} = {p1, p2}
            /\ writes[k].name = name /\ writes[l].name = name
            /\ writes[l].existed
            /\ files[name] = DocumentOf(IF writes[l].id = p1 THEN e1 ELSE e2)

C9_FilenameCollision ==
    pc = "done" =>
        \A f1, f2 \in 1..Len(snapshot) :
            \A i1 \in 1..Len(Examined(f1)), i2 \in 1..Len(Examined(f2)) :
                LET e1 == Examined(f1)[i1]
                    e2 == Examined(f2)[i2]
                IN (/\ SameTitleAndDate(e1, e2)
                    /\ post_identity(e1) \notin KnownIds(loaded)
                    /\ post_identity(e2) \notin KnownIds(loaded)) => Collided(e1, e2)

\* a finished run whose manifest holds two records of different ids and one slug
C9_Witness ==
    /\ pc = "done"
    /\ Len(writes) >= 2
    /\ \E k, l \in 1..Len(manifest.posts) :
         /\ manifest.posts[k].id # manifest.posts[l].id
         /\ manifest.posts[k].slug = manifest.posts[l].slug
         /\ \E a, b \in 1..Len(writes) :
              a < b /\ writes[a].id = manifest.posts[k].id
                    /\ writes[b].id = manifest.posts[l].id /\ writes[b].existed

\* C10 as stated: for content longer than max_len (here even once its tags
\* are removed and its whitespace collapsed) the summary is exactly max_len
\* long and holds no tag.
C10_ExactLength ==
    (pc = "summarized" /\ Len(text_in) > cut_in /\ Len(PlainText(text_in)) > cut_in) =>
        Len(text_out) = cut_in /\ ~HasTag(text_out)

\* C10 amended: for max_len >= 1 and content longer than max_len the summary
\* is at most max_len long and holds no tag; when the text left after tag
\* removal and whitespace collapsing is longer than max_len the summary ends
\* with the ellipsis and is max_len long, or max_len - 1 when the cut falls
\* right after a space.
C10_BoundedLength ==
    (pc = "summarized" /\ cut_in >= 1 /\ Len(text_in) > cut_in) =>
        /\ Len(text_out) <= cut_in
        /\ ~HasTag(text_out)
        /\ Len(PlainText(text_in)) > cut_in =>
             /\ text_out[Len(text_out)] = Ellipsis
             /\ IF cut_in >= 2 /\ PlainText(text_in)[cut_in - 1] \in Space
                THEN Len(text_out) = cut_in - 1
                ELSE Len(text_out) = cut_in

\* markup was removed and the text cut right after a space
C10_Witness ==
    /\ pc = "summarized"
    /\ cut_in >= 2
    /\ HasTag(text_in)
    /\ Len(PlainText(text_in)) > cut_in
    /\ Len(text_out) = cut_in - 1
    /\ text_out[Len(text_out)] = Ellipsis

\* C11: for every title, the empty one, one of punctuation only, one of
\* whitespace only and one with characters outside ASCII included, slugify
\* returns the literal "post" or non-empty runs of a-z and 0-9 separated by
\* single hyphens, with no hyphen at either end.
HyphenatedRuns(s) ==
    /\ s # <<>>
    /\ \A i \in 1..Len(s) : s[i] \in SlugChars
    /\ s[1] # "-" /\ s[Len(s)] # "-"
    /\ \A i \in 1..(Len(s) - 1) : ~(s[i] = "-" /\ s[i+1] = "-")

C11_SlugSafe ==
    pc = "slugged" =>
        /\ text_out = <<"p", "o", "s", "t">> \/ HyphenatedRuns(text_out)
        /\ (\A i \in 1..Len(text_in) : LowerChar(text_in[i]) \notin SlugChars \ {"-"})
              => text_out = <<"p", "o", "s", "t">>

\* a title with an accented letter and punctuation between two words, in
\* upper case, became two lower-case runs joined by one hyphen
C11_Witness ==
    /\ pc = "slugged"
    /\ text_in = <<"A", EAcute, "!", "A">>
    /\ text_out = <<"a", "-", "a">>

\* C12: save_manifest keeps the records of equal date_iso in the order they
\* had in the in-memory list, and what it persists is the list it sorted.
DateKeys == -1..MaxInstant

WithDate(posts, d) == SelectSeq(posts, LAMBDA r : r.date_iso = d)

C12_StableSave ==
    /\ [][(pc = "feeds" /\ pc' = "dump") =>
            \A d \in DateKeys : WithDate(manifest'.posts, d) = WithDate(manifest.posts, d)]_vars
    /\ [][(pc = "dump" /\ pc' = "done") => disk'.posts = manifest.posts]_vars
    /\ [](pc \in {"dump", "done"} =>
            \A k \in 1..Len(manifest.posts) : manifest.posts[k].date_iso \in DateKeys)

\* a save that had to reorder the loaded records and persisted an added
\* record after a loaded record of the same date_iso
C12_Witness ==
    /\ Saved
    /\ ~SortedDesc(loaded.posts)
    /\ \E i, j \in 1..Len(disk.posts) :
         /\ i < j
         /\ disk.posts[i].date_iso = disk.posts[j].date_iso
         /\ disk.posts[i].id # disk.posts[j].id
         /\ \E k \in 1..Len(loaded.posts) : loaded.posts[k] = disk.posts[i]
         /\ \E k \in 1..Len(writes) : writes[k].id = disk.posts[j].id

\* C13: whatever the manifest file holds, the run does not fail while it
\* computes the known ids or sorts the post list.
C13_CorruptNeverFatal ==
    failed_at \notin {"known_ids", "sort"}

\* C14: once a run has ended, normally or not, the manifest file holds a
\* record whose path names each document the run wrote.
Recorded(file, name) ==
    \E i \in 1..Len(file.posts) : file.posts[i].path = [dir |-> "posts", name |-> name]

C14_WritesRecorded ==
    pc \in {"done", "failed"} =>
        \A k \in 1..Len(writes) : Recorded(disk, writes[k].name)

\* C15 as stated: a run that returns normally has called save_manifest
\* exactly once.
C15_SavedOncePerRun ==
    pc = "done" => saves = 1

\* C15 amended: save_manifest is called at most once in a run and never
\* before the last feed has been processed, the manifest file is untouched
\* until then, and a run over at least one feed that returns normally has
\* called it exactly once and left in the file the manifest it holds.
C15_SavedOnceAtEnd ==
    /\ saves \in {0, 1}
    /\ pc \in {"start", "feeds", "entries"} => (saves = 0 /\ disk = disk0)
    /\ pc = "dump" => (saves = 1 /\ fi = Len(snapshot) + 1)
    /\ Saved => (saves = 1 /\ fi = Len(snapshot) + 1 /\ disk = json_dump(manifest))

\* a saved run whose first feed had no entries and whose last feed was
\* flagged, with a document added from it
C15_Witness ==
    /\ Saved
    /\ saves = 1
    /\ Len(snapshot) = NumFeeds
    /\ snapshot[1] = <<>>
    /\ bozo
    /\ added_count >= 1

\* C16: the parse of a feed, flagged or not, hands the entry loop the
\* feed's entries up to the cap, or moves to the next feed when there are
\* none; the end of a feed's entries moves to the next feed; a run that
\* saved has gone through every feed; and no step raises but the storage
\* steps and the ones that read the loaded post list.
C16_FeedIsolation ==
    /\ [][(pc = "feeds" /\ fi <= Len(snapshot)) =>
            /\ IF snapshot[fi] = <<>>
               THEN pc' = "feeds" /\ fi' = fi + 1
               ELSE pc' = "entries" /\ fi' = fi /\ entries' = Examined(fi)
            /\ UNCHANGED <<store, manifest, known_ids, added_count, failed_at, exit_code>>]_vars
    /\ [][(pc = "entries" /\ entries = <<>>) => (pc' = "feeds" /\ fi' = fi + 1)]_vars
    /\ [][pc' # "start" => fi' \in {fi, fi + 1}]_vars
    /\ [](Saved => (fi = Len(snapshot) + 1 /\ exit_code = 0))
    /\ [](failed_at \in {""} \cup StorageSteps \cup {"known_ids", "sort"})

\* a flagged first feed whose entries were added, then a feed without
\* entries, then the save
C16_Witness ==
    /\ Saved
    /\ Len(snapshot) = NumFeeds
    /\ snapshot[NumFeeds] = <<>>
    /\ \E k \in 1..Len(writes) : writes[k].feed = 1
    /\ \E k \in 1..Len(disk.posts) : disk.posts[k].id = writes[1].id

\* C17: the step on an entry whose identity is known writes no document,
\* leaves the manifest, the known ids, the added count and the manifest file
\* as they are, and moves to the next entry of the feed.
C17_SkipFrame ==
    [][(pc = "entries" /\ entries # <<>> /\ post_identity(Head(entries)) \in known_ids) =>
         /\ UNCHANGED <<files, disk, manifest, known_ids, added_count, writes>>
         /\ entries' = Tail(entries)
         /\ pc' = "entries" /\ fi' = fi]_vars

\* the first feed held the same new entry twice: it was added once and its
\* second occurrence skipped
C17_Witness ==
    /\ pc = "entries"
    /\ fi = 1
    /\ entries = <<>>
    /\ Len(Examined(1)) = 2
    /\ Examined(1)[1] = Examined(1)[2]
    /\ post_identity(Examined(1)[1]) \notin KnownIds(loaded)
    /\ added_count = 1
    /\ Len(writes) = 1

\* C18: whatever integer the cap is, the entry loop of a feed examines at
\* most cap entries (none when the cap is negative) and a run adds at most
\* that many documents from one feed.
AddedFrom(f) == Cardinality({k \in 1..Len(writes) : writes[k].feed = f})

C18_AtMostCap ==
    /\ pc = "entries" => Len(Examined(fi)) <= Max(0, items_per_feed)
    /\ \A f \in 1..Len(snapshot) : AddedFrom(f) <= Max(0, items_per_feed)

\* for a cap that is not negative: the entries examined are the first cap
\* entries of the feed and no more than cap documents are added from it
C18_NonNegativeCap ==
    items_per_feed >= 0 =>
        /\ pc = "entries" =>
              /\ Examined(fi) = SubSeq(snapshot[fi], 1, Min(items_per_feed, Len(snapshot[fi])))
              /\ \E n \in 0..Len(Examined(fi)) :
                    entries = SubSeq(Examined(fi), n + 1, Len(Examined(fi)))
        /\ \A f \in 1..Len(snapshot) : AddedFrom(f) <= items_per_feed

\* C19: a run that saved persisted every record it loaded, as many times as
\* it was loaded, and one more record for each document write; the added
\* count is the number of document writes; the other keys of the manifest
\* are kept.
Count(posts, r) == Cardinality({k \in 1..Len(posts) : posts[k] = r})

C19_AppendOnly ==
    Saved =>
        /\ \A k \in 1..Len(loaded.posts) :
              Count(disk.posts, loaded.posts[k]) >= Count(loaded.posts, loaded.posts[k])
        /\ Len(disk.posts) = Len(loaded.posts) + added_count
        /\ added_count = Len(writes)
        /\ disk.extra = loaded.extra
        /\ IF WellFormed(disk0) THEN loaded.posts = disk0.posts ELSE loaded.posts = <<>>

\* two records loaded from a well-formed file, two documents written, four
\* records persisted
C19_Witness ==
    /\ Saved
    /\ WellFormed(disk0)
    /\ Len(loaded.posts) = 2
    /\ added_count = 2
    /\ Len(disk.posts) = 4

\* C20: the identity of an entry that stands at position cap or later in
\* its feed (positions counted from 0), that no feed holds before position
\* cap and that the manifest file did not hold when the run started, is not
\* in the manifest.
WithinCap ==
    UNION {{post_identity(snapshot[f][i]) : i \in {j \in 1..Len(snapshot[f]) : j - 1 < items_per_feed}} : f \in 1..Len(snapshot)}

BeyondCap ==
    UNION {{post_identity(snapshot[f][i]) : i \in {j \in 1..Len(snapshot[f]) : j - 1 >= items_per_feed}} : f \in 1..Len(snapshot)}

C20_BeyondCapNeverIngested ==
    \A pid \in BeyondCap :
        (pid \notin WithinCap /\ pid \notin KnownIds(loaded)) => pid \notin KnownIds(manifest)

\* for a cap that is not negative such an identity is never ingested
C20_NonNegativeCap ==
    items_per_feed >= 0 => C20_BeyondCapNeverIngested

====
